---- MODULE Spec2Model ----
(***************************************************************************)
(* A model of the vodka crates of Whisky:                                  *)
(*   vodka-pe      : inspect_pe_bytes / inspect_pe_path (PE header reader) *)
(*   vodka-core    : the extern "C" entry points around inspect_pe_path    *)
(*   vodka-runtime : normalize_wine_tag                                    *)
(*                                                                         *)
(* Number representation.  TLC's integers are 32-bit signed, so a u32 and  *)
(* a usize are kept as little-endian sequences of 16-bit limbs:            *)
(*   u16   : an integer 0..65535                                           *)
(*   u32   : <<lo, hi>>                                                    *)
(*   usize : usize_bits \div 16 limbs                                      *)
(* and every `+` of the source on a usize is usize_add, which carries      *)
(* through the limbs and reports the carry out of the top limb.            *)
(***************************************************************************)
EXTENDS Integers, Sequences, FiniteSets, TLC

VARIABLES
    usize_bits,       \* build: width of usize on the target (32 or 64)
    overflow_checks,  \* build: rustc -C overflow-checks (on in dev, off in release)
    mem,              \* the byte buffers alive in the process, by slot
    call,             \* per parse call: its locals and position in inspect_pe_bytes
    fs,               \* file system: path string -> file content or NoFile
    cells,            \* caller-owned memory the out-parameters may point to
    outs,             \* the pointers the caller passes as out-parameters
    ffi,              \* the last completed extern "C" call and what it did
    tag               \* the normalize_wine_tag call: its locals and position

vars == <<usize_bits, overflow_checks, mem, call, fs, cells, outs, ffi, tag>>

(***************************************************************************)
(* Bounds of the model.                                                    *)
(***************************************************************************)
\* lengths within TruncSlack bytes below each read window's end are tried
TruncSlack == 1
\* number of parse calls that run interleaved
NumCalls == 2
\* longest body of a tag after its prefix
MaxBody == 3

(***************************************************************************)
(* Program constants (decimal; the source writes them in hex).             *)
(***************************************************************************)
\* a limb holds 16 bits
Limb == 256 * 256
\* 0x40: if bytes.len() < 0x40
DosHeaderLen == 64
\* 0x3C: read_u32_le(bytes, 0x3C)
PeOffsetField == 60
\* coff_offset = pe_offset + 4 ; get(pe_offset..pe_offset + 4)
SigLen == 4
\* coff_offset + 16
OptSizeField == 16
\* optional_offset = coff_offset + 20
CoffLen == 20
\* optional_size < 0x46
MinOptionalSize == 70
\* magic != 0x10B && magic != 0x20B
MagicPe32 == 267
MagicPe32Plus == 523
\* optional_offset + 0x10
EntryField == 16
\* optional_offset + 0x44
SubsystemField == 68

(***************************************************************************)
(* usize arithmetic                                                        *)
(***************************************************************************)
NLimbs == usize_bits \div 16

RECURSIVE AddLimbs(_, _)
AddLimbs(x, c) ==
    IF x = <<>> THEN [limbs |-> <<>>, carry |-> c]
    ELSE LET s == Head(x) + c
             r == AddLimbs(Tail(x), s \div Limb)
         IN  [limbs |-> <<s % Limb>> \o r.limbs, carry |-> r.carry]

\* a small integer as a usize
usize_of(n) == [i \in 1..NLimbs |-> IF i = 1 THEN n ELSE 0]

\* `x as usize` for a u32 x (zero-extended; lossless, usize is >= 32 bits)
u32_as_usize(x) == [i \in 1..NLimbs |-> IF i <= 2 THEN x[i] ELSE 0]

\* a u16 as usize
u16_as_usize(x) == usize_of(x)

\* x + k on usize.  With overflow checks a carry out of the top limb panics
\* ("attempt to add with overflow"); without, the sum wraps modulo 2^usize_bits.
usize_add(x, k) ==
    LET r == AddLimbs(x, k)
    IN  [panic   |-> overflow_checks /\ r.carry # 0,
         val     |-> r.limbs,
         wrapped |-> ~overflow_checks /\ r.carry # 0]

\* x > y on usize: compare from the top limb down
RECURSIVE LimbsGt(_, _, _)
LimbsGt(x, y, i) ==
    IF i = 0 THEN FALSE
    ELSE IF x[i] # y[i] THEN x[i] > y[i]
    ELSE LimbsGt(x, y, i - 1)

usize_gt(x, y) == LimbsGt(x, y, NLimbs)

\* the value of a usize known to be below 2^16
usize_small(x) == x[1]

(***************************************************************************)
(* Byte buffers: a function 0..len-1 -> 0..255                             *)
(***************************************************************************)
BufLen(bytes) == Cardinality(DOMAIN bytes)

\* the byte the machine yields for an index; an index outside the buffer is
\* not the buffer's memory (the model yields 0 there and records the access)
ByteAt(bytes, i) == IF i \in DOMAIN bytes THEN bytes[i] ELSE 0

\* the bytes taken in the other order
u16_from_be_bytes(b0, b1) == 256 * b0 + b1

u16_from_le_bytes(b0, b1) == b0 + 256 * b1

u32_from_le_bytes(b0, b1, b2, b3) == <<b0 + 256 * b1, b2 + 256 * b3>>

u16_to_le_bytes(v) == <<v % 256, v \div 256>>

u32_to_le_bytes(v) == <<v[1] % 256, v[1] \div 256, v[2] % 256, v[2] \div 256>>

\* <[u8]>::get(a..b): None when a > b or b > len, else the sub-slice
slice_get(bytes, a, b) ==
    IF usize_gt(a, b) \/ usize_gt(b, usize_of(BufLen(bytes)))
    THEN [kind |-> "None", start |-> 0, len |-> 0]
    ELSE [kind |-> "Some", start |-> usize_small(a),
          len |-> usize_small(b) - usize_small(a)]

\* the bytes of a slice, as a sequence
SliceBytes(bytes, sl) == [i \in 1..sl.len |-> ByteAt(bytes, sl.start + i - 1)]

\* the buffer indexes a slice covers
SliceIdx(sl) == {sl.start + i : i \in 0..(sl.len - 1)}

(***************************************************************************)
(* vodka-pe: read_u16_le / read_u32_le                                     *)
(* A read yields kind "Some" (with val), "None" or "Panic"; touched is the *)
(* set of buffer indexes it dereferenced and wrapped tells whether a usize *)
(* sum in it wrapped.                                                      *)
(***************************************************************************)
ReadPanic == [kind |-> "Panic", val |-> 0, touched |-> {}, wrapped |-> FALSE]

ReadNone(w) == [kind |-> "None", val |-> 0, touched |-> {}, wrapped |-> w]

read_u16_le(bytes, offset) ==
    LET e  == usize_add(offset, 2)
        sl == slice_get(bytes, offset, e.val)
    IN  IF e.panic THEN ReadPanic
        ELSE IF sl.kind = "None" THEN ReadNone(e.wrapped)
        ELSE IF sl.len < 2 THEN ReadPanic   \* slice[1]: index out of bounds
        ELSE [kind    |-> "Some",
              val     |-> u16_from_le_bytes(ByteAt(bytes, sl.start),
                                            ByteAt(bytes, sl.start + 1)),
              touched |-> {sl.start, sl.start + 1},
              wrapped |-> e.wrapped]

read_u32_le(bytes, offset) ==
    LET e  == usize_add(offset, 4)
        sl == slice_get(bytes, offset, e.val)
    IN  IF e.panic THEN ReadPanic
        ELSE IF sl.kind = "None" THEN ReadNone(e.wrapped)
        ELSE IF sl.len < 4 THEN ReadPanic   \* slice[3]: index out of bounds
        ELSE [kind    |-> "Some",
              val     |-> u32_from_le_bytes(ByteAt(bytes, sl.start),
                                            ByteAt(bytes, sl.start + 1),
                                            ByteAt(bytes, sl.start + 2),
                                            ByteAt(bytes, sl.start + 3)),
              touched |-> {sl.start, sl.start + 1, sl.start + 2, sl.start + 3},
              wrapped |-> e.wrapped]

(***************************************************************************)
(* vodka-pe: inspect_pe_bytes, one operator per statement.  The locals of  *)
(* a call are a record; pc names the source line the call is at.           *)
(***************************************************************************)
NoFields == [kind |-> "None", machine |-> 0, subsystem |-> 0,
             entry_point_rva |-> <<0, 0>>]

Pending == [kind |-> "Pending", machine |-> 0, subsystem |-> 0,
            entry_point_rva |-> <<0, 0>>]

\* b"PE\0\0"
PeSignature == <<80, 69, 0, 0>>

\* the locals of a call that has not executed anything yet
NewCall(slot) ==
    [pc |-> "l15", buf |-> slot,
     pe_offset |-> usize_of(0), coff_offset |-> usize_of(0),
     machine |-> 0, optional_size |-> usize_of(0),
     optional_offset |-> usize_of(0), magic |-> 0,
     entry_point_rva |-> <<0, 0>>, subsystem |-> 0,
     result |-> Pending, accessed |-> {}, wrapped |-> FALSE]

\* a call slot that never runs
IdleCall(slot) == [NewCall(slot) EXCEPT !.pc = "idle"]

\* `return None` and the `?` on a None
ReturnNone(l) == [l EXCEPT !.pc = "done", !.result = NoFields]

\* a panic unwinds out of inspect_pe_bytes
Unwind(l) == [l EXCEPT !.pc = "panicked"]

\* what a read leaves in the call's bookkeeping
Noted(l, r) == [l EXCEPT !.accessed = @ \cup r.touched,
                         !.wrapped = @ \/ r.wrapped]

\* lines 15-17: if bytes.len() < 0x40 { return None; }
check_len(l, bytes) ==
    IF BufLen(bytes) < DosHeaderLen THEN ReturnNone(l)
    ELSE [l EXCEPT !.pc = "l19"]

\* line 19: let pe_offset = read_u32_le(bytes, 0x3C)? as usize;
read_pe_offset(l, bytes) ==
    LET r == read_u32_le(bytes, usize_of(PeOffsetField))
    IN  IF r.kind = "Panic" THEN Unwind(l)
        ELSE IF r.kind = "None" THEN ReturnNone(Noted(l, r))
        ELSE [Noted(l, r) EXCEPT !.pc = "l20",
                                 !.pe_offset = u32_as_usize(r.val)]

\* lines 20-22: if bytes.get(pe_offset..pe_offset + 4)? != b"PE\0\0" { return None; }
check_signature(l, bytes) ==
    LET e  == usize_add(l.pe_offset, SigLen)
        sl == slice_get(bytes, l.pe_offset, e.val)
        w  == [l EXCEPT !.wrapped = @ \/ e.wrapped]
    IN  IF e.panic THEN Unwind(l)
        ELSE IF sl.kind = "None" THEN ReturnNone(w)
        ELSE LET a == [w EXCEPT !.accessed = @ \cup SliceIdx(sl)]
             IN  IF SliceBytes(bytes, sl) # PeSignature THEN ReturnNone(a)
                 ELSE [a EXCEPT !.pc = "l24"]

\* lines 24-25: let coff_offset = pe_offset + 4;
\*              let machine = read_u16_le(bytes, coff_offset)?;
read_machine(l, bytes) ==
    LET c == usize_add(l.pe_offset, SigLen)
        r == read_u16_le(bytes, c.val)
        w == [l EXCEPT !.wrapped = @ \/ c.wrapped, !.coff_offset = c.val]
    IN  IF c.panic THEN Unwind(l)
        ELSE IF r.kind = "Panic" THEN Unwind(w)
        ELSE IF r.kind = "None" THEN ReturnNone(Noted(w, r))
        ELSE [Noted(w, r) EXCEPT !.pc = "l26", !.machine = r.val]

\* line 26: let optional_size = read_u16_le(bytes, coff_offset + 16)? as usize;
read_optional_size(l, bytes) ==
    LET o == usize_add(l.coff_offset, OptSizeField)
        r == read_u16_le(bytes, o.val)
        w == [l EXCEPT !.wrapped = @ \/ o.wrapped]
    IN  IF o.panic THEN Unwind(l)
        ELSE IF r.kind = "Panic" THEN Unwind(w)
        ELSE IF r.kind = "None" THEN ReturnNone(Noted(w, r))
        ELSE [Noted(w, r) EXCEPT !.pc = "l27",
                                 !.optional_size = u16_as_usize(r.val)]

\* lines 27-31 without the size test
check_optional_size_skipped(l, bytes) ==
    LET o == usize_add(l.coff_offset, CoffLen)
    IN  IF o.panic THEN Unwind(l)
        ELSE [l EXCEPT !.wrapped = @ \/ o.wrapped, !.optional_offset = o.val,
                       !.pc = "l33"]

\* lines 27-31: let optional_offset = coff_offset + 20;
\*              if optional_size < 0x46 { return None; }
check_optional_size(l, bytes) ==
    LET o == usize_add(l.coff_offset, CoffLen)
        w == [l EXCEPT !.wrapped = @ \/ o.wrapped, !.optional_offset = o.val]
    IN  IF o.panic THEN Unwind(l)
        ELSE IF usize_gt(usize_of(MinOptionalSize), l.optional_size)
             THEN ReturnNone(w)
        ELSE [w EXCEPT !.pc = "l33"]

\* lines 33-36: let magic = read_u16_le(bytes, optional_offset)?;
\*              if magic != 0x10B && magic != 0x20B { return None; }
check_magic(l, bytes) ==
    LET r == read_u16_le(bytes, l.optional_offset)
    IN  IF r.kind = "Panic" THEN Unwind(l)
        ELSE IF r.kind = "None" THEN ReturnNone(Noted(l, r))
        ELSE IF r.val # MagicPe32 /\ r.val # MagicPe32Plus
             THEN ReturnNone([Noted(l, r) EXCEPT !.magic = r.val])
        ELSE [Noted(l, r) EXCEPT !.pc = "l38", !.magic = r.val]

\* line 38: let entry_point_rva = read_u32_le(bytes, optional_offset + 0x10)?;
read_entry_point(l, bytes) ==
    LET o == usize_add(l.optional_offset, EntryField)
        r == read_u32_le(bytes, o.val)
        w == [l EXCEPT !.wrapped = @ \/ o.wrapped]
    IN  IF o.panic THEN Unwind(l)
        ELSE IF r.kind = "Panic" THEN Unwind(w)
        ELSE IF r.kind = "None" THEN ReturnNone(Noted(w, r))
        ELSE [Noted(w, r) EXCEPT !.pc = "l39", !.entry_point_rva = r.val]

\* lines 39-41: let subsystem = read_u16_le(bytes, optional_offset + 0x44)?;
\*              Some((machine, subsystem, entry_point_rva))
read_subsystem(l, bytes) ==
    LET o == usize_add(l.optional_offset, SubsystemField)
        r == read_u16_le(bytes, o.val)
        w == [l EXCEPT !.wrapped = @ \/ o.wrapped]
    IN  IF o.panic THEN Unwind(l)
        ELSE IF r.kind = "Panic" THEN Unwind(w)
        ELSE IF r.kind = "None" THEN ReturnNone(Noted(w, r))
        ELSE [Noted(w, r) EXCEPT
                !.pc = "done", !.subsystem = r.val,
                !.result = [kind |-> "Some", machine |-> l.machine,
                            subsystem |-> r.val,
                            entry_point_rva |-> l.entry_point_rva]]

\* the statement a call at pc executes
ParseStep(l, bytes) ==
    CASE l.pc = "l15" -> check_len(l, bytes)
      [] l.pc = "l19" -> read_pe_offset(l, bytes)
      [] l.pc = "l20" -> check_signature(l, bytes)
      [] l.pc = "l24" -> read_machine(l, bytes)
      [] l.pc = "l26" -> read_optional_size(l, bytes)
      [] l.pc = "l27" -> check_optional_size(l, bytes)
      [] l.pc = "l33" -> check_magic(l, bytes)
      [] l.pc = "l38" -> read_entry_point(l, bytes)
      [] l.pc = "l39" -> read_subsystem(l, bytes)
      [] OTHER -> l

Finished(l) == l.pc \in {"done", "panicked"}

\* inspect_pe_bytes run to its end: the locals it ends with
RECURSIVE RunParse(_, _)
RunParse(l, bytes) ==
    IF Finished(l) THEN l ELSE RunParse(ParseStep(l, bytes), bytes)

\* inspect_pe_bytes(bytes): "Some" with the fields, "None", or "Panic"
inspect_pe_bytes(bytes) ==
    LET l == RunParse(NewCall(1), bytes)
    IN  IF l.pc = "panicked" THEN [NoFields EXCEPT !.kind = "Panic"]
        ELSE l.result

(***************************************************************************)
(* Input buffers.  BuildImage is tests::build_minimal_pe with its literals *)
(* made parameters: a zeroed buffer of p.len bytes, "MZ", the PE offset at *)
(* 0x3C, and a header laid out at p.at (no header when p.at < 0).  Bytes   *)
(* that fall outside the buffer are dropped, which gives truncated files.  *)
(***************************************************************************)
\* vec![0u8; 0x200]
ScenarioLen == 512
\* let pe_offset: u32 = 0x80
ScenarioPeOffset == 128
\* 0x8664u16
ScenarioMachine == 34404
\* 0x00F0u16
ScenarioOptionalSize == 240
\* 0x12345678u32, low and high half
ScenarioEntryLo == 22136
ScenarioEntryHi == 4660
\* 2u16
ScenarioSubsystem == 2

InRange(i, at, n) == at <= i /\ i < at + n

ImageByte(p, i) ==
    LET coff     == p.at + SigLen
        optional == coff + CoffLen
    IN  IF InRange(i, PeOffsetField, 4)
            THEN u32_to_le_bytes(p.pe_offset)[i - PeOffsetField + 1]
        ELSE IF p.at >= 0 /\ InRange(i, p.at, 4)
            THEN p.sig[i - p.at + 1]
        ELSE IF p.at >= 0 /\ InRange(i, coff, 2)
            THEN u16_to_le_bytes(p.machine)[i - coff + 1]
        ELSE IF p.at >= 0 /\ InRange(i, coff + OptSizeField, 2)
            THEN u16_to_le_bytes(p.optional_size)[i - coff - OptSizeField + 1]
        ELSE IF p.at >= 0 /\ InRange(i, optional, 2)
            THEN u16_to_le_bytes(p.magic)[i - optional + 1]
        ELSE IF p.at >= 0 /\ InRange(i, optional + EntryField, 4)
            THEN u32_to_le_bytes(p.entry)[i - optional - EntryField + 1]
        ELSE IF p.at >= 0 /\ InRange(i, optional + SubsystemField, 2)
            THEN u16_to_le_bytes(p.subsystem)[i - optional - SubsystemField + 1]
        ELSE IF i = 0 THEN 77      \* b'M'
        ELSE IF i = 1 THEN 90      \* b'Z'
        ELSE 0

BuildImage(p) == [i \in 0..(p.len - 1) |-> ImageByte(p, i)]

\* the parameters of build_minimal_pe as the test writes them
Scenario ==
    [len |-> ScenarioLen, pe_offset |-> <<ScenarioPeOffset, 0>>,
     at |-> ScenarioPeOffset, sig |-> PeSignature,
     machine |-> ScenarioMachine, optional_size |-> ScenarioOptionalSize,
     magic |-> MagicPe32Plus, entry |-> <<ScenarioEntryLo, ScenarioEntryHi>>,
     subsystem |-> ScenarioSubsystem]

ScenarioImage == BuildImage(Scenario)

\* the end of each window inspect_pe_bytes reads, for a header at `at`
WindowEnds(at) ==
    {PeOffsetField + 4,
     at + SigLen,
     at + SigLen + 2,
     at + SigLen + OptSizeField + 2,
     at + SigLen + CoffLen + 2,
     at + SigLen + CoffLen + EntryField + 4,
     at + SigLen + CoffLen + SubsystemField + 2}

\* truncations of the scenario file: just below and at each window's end
TruncatedParams ==
    {[Scenario EXCEPT !.len = e - k] :
        e \in WindowEnds(ScenarioPeOffset), k \in 0..TruncSlack}
    \cup {[Scenario EXCEPT !.len = n] : n \in 0..TruncSlack}

\* PE offsets: a u32 and where (if anywhere) a header is laid out for it
PeOffsetParams ==
    LET Small(n) == {[Scenario EXCEPT !.len = n, !.pe_offset = <<o, 0>>, !.at = o] :
                        o \in {x \in {0, DosHeaderLen, n - 94, n - 93, n - SigLen,
                                       n - SigLen + 1, n} : x >= 0}}
        Huge(n)  == {[Scenario EXCEPT !.len = n, !.pe_offset = <<lo, hi>>,
                                       !.at = ScenarioPeOffset] :
                        lo \in {ScenarioPeOffset, 65531, 65532, 65535},
                        hi \in {1, 32767, 32768, 65535}}
    IN  UNION {Small(n) \cup Huge(n) : n \in {DosHeaderLen, 222, ScenarioLen}}

\* one byte of the signature replaced by another value
SignatureParams ==
    {[Scenario EXCEPT !.sig = [PeSignature EXCEPT ![i] = v]] :
        i \in 1..4, v \in {0, 1, 69, 80, 88, 255}}

\* the header fields varied around the scenario's values
FieldParams ==
    {[Scenario EXCEPT !.machine = m, !.optional_size = z, !.magic = g,
                      !.entry = e, !.subsystem = u] :
        m \in {ScenarioMachine, 332},
        z \in {0, MinOptionalSize - 1, MinOptionalSize, ScenarioOptionalSize, 65535},
        g \in {MagicPe32, MagicPe32Plus, MagicPe32 + 1, MagicPe32Plus - 1, 0, 2818},
        e \in {<<ScenarioEntryLo, ScenarioEntryHi>>, <<65535, 65535>>},
        u \in {ScenarioSubsystem, 3}}

Images ==
    {BuildImage(p) :
        p \in TruncatedParams \cup PeOffsetParams \cup SignatureParams \cup FieldParams}

EmptyImage == BuildImage([Scenario EXCEPT !.len = 0])

(***************************************************************************)
(* The parse calls as processes.                                           *)
(***************************************************************************)
Calls == 1..NumCalls

\* the locals of call p: the let-bindings of its own activation
Frame(p) == call[p]

\* every call reading the buffer of the first one
BytesOfFirst(p) == mem[1]

\* the `bytes: &[u8]` argument of call p
Bytes(p) == mem[Frame(p).buf]

\* what a step of inspect_pe_bytes leaves alone: it only has locals
ParseFrame == <<usize_bits, overflow_checks, mem, fs, cells, outs, ffi, tag>>

\* call p executes lines 15-17
CheckLen(p) ==
    /\ Frame(p).pc = "l15"
    /\ call' = [call EXCEPT ![p] = check_len(Frame(p), Bytes(p))]
    /\ UNCHANGED ParseFrame

\* call p executes line 19
ReadPeOffset(p) ==
    /\ Frame(p).pc = "l19"
    /\ call' = [call EXCEPT ![p] = read_pe_offset(Frame(p), Bytes(p))]
    /\ UNCHANGED ParseFrame

\* call p executes lines 20-22
CheckSignature(p) ==
    /\ Frame(p).pc = "l20"
    /\ call' = [call EXCEPT ![p] = check_signature(Frame(p), Bytes(p))]
    /\ UNCHANGED ParseFrame

\* call p executes lines 24-25
ReadMachine(p) ==
    /\ Frame(p).pc = "l24"
    /\ call' = [call EXCEPT ![p] = read_machine(Frame(p), Bytes(p))]
    /\ UNCHANGED ParseFrame

\* call p executes line 26
ReadOptionalSize(p) ==
    /\ Frame(p).pc = "l26"
    /\ call' = [call EXCEPT ![p] = read_optional_size(Frame(p), Bytes(p))]
    /\ UNCHANGED ParseFrame

\* call p executes lines 27-31
CheckOptionalSize(p) ==
    /\ Frame(p).pc = "l27"
    /\ call' = [call EXCEPT ![p] = check_optional_size(Frame(p), Bytes(p))]
    /\ UNCHANGED ParseFrame

\* call p executes lines 33-36
CheckMagic(p) ==
    /\ Frame(p).pc = "l33"
    /\ call' = [call EXCEPT ![p] = check_magic(Frame(p), Bytes(p))]
    /\ UNCHANGED ParseFrame

\* call p executes line 38
ReadEntryPoint(p) ==
    /\ Frame(p).pc = "l38"
    /\ call' = [call EXCEPT ![p] = read_entry_point(Frame(p), Bytes(p))]
    /\ UNCHANGED ParseFrame

\* call p executes lines 39-41
ReadSubsystem(p) ==
    /\ Frame(p).pc = "l39"
    /\ call' = [call EXCEPT ![p] = read_subsystem(Frame(p), Bytes(p))]
    /\ UNCHANGED ParseFrame

NextParse ==
    \E p \in Calls :
        \/ CheckLen(p)
        \/ ReadPeOffset(p)
        \/ CheckSignature(p)
        \/ ReadMachine(p)
        \/ ReadOptionalSize(p)
        \/ CheckOptionalSize(p)
        \/ CheckMagic(p)
        \/ ReadEntryPoint(p)
        \/ ReadSubsystem(p)

\* the parts of the state a specification does not use
NoFs == <<>>
NoCells == <<>>
NoOuts == <<>>
NoFfi == [fn |-> "none"]
NoTag == [pc |-> "none"]

InitBuild ==
    /\ usize_bits \in {32, 64}
    /\ overflow_checks \in BOOLEAN

\* one call of inspect_pe_bytes on any of the input buffers
Init ==
    /\ InitBuild
    /\ \E img \in Images :
          mem = [s \in Calls |-> IF s = 1 THEN img ELSE EmptyImage]
    /\ call = [p \in Calls |-> IF p = 1 THEN NewCall(1) ELSE IdleCall(p)]
    /\ fs = NoFs /\ cells = NoCells /\ outs = NoOuts /\ ffi = NoFfi /\ tag = NoTag

Spec == Init /\ [][NextParse]_vars

\* buffers for the interleaved calls: a header right after the DOS header,
\* valid, with an unknown magic, and with a PE offset near 2^32
ParImages ==
    LET base == [Scenario EXCEPT !.len = 158, !.pe_offset = <<DosHeaderLen, 0>>,
                                 !.at = DosHeaderLen]
    IN  {BuildImage(base),
         BuildImage([base EXCEPT !.magic = 0]),
         BuildImage([base EXCEPT !.pe_offset = <<65532, 65535>>])}

\* NumCalls calls of inspect_pe_bytes, each on its own buffer or on the
\* first call's, running interleaved statement by statement
InitPar ==
    /\ InitBuild
    /\ mem \in [Calls -> ParImages]
    /\ \E slot \in [Calls -> Calls] :
          /\ \A p \in Calls : slot[p] \in {1, p}
          /\ call = [p \in Calls |-> NewCall(slot[p])]
    /\ fs = NoFs /\ cells = NoCells /\ outs = NoOuts /\ ffi = NoFfi /\ tag = NoTag

SpecPar == InitPar /\ [][NextParse]_vars

(***************************************************************************)
(* vodka-runtime: normalize_wine_tag.  A &str is a sequence of characters, *)
(* each a one-character string.                                            *)
(***************************************************************************)
\* char::is_whitespace, on the characters the inputs use
IsWhitespace(ch) == ch \in {" ", "\t", "\n"}

\* char::is_ascii_digit
IsAsciiDigit(ch) == ch \in {"0", "1", "2", "3", "4", "5", "6", "7", "8", "9"}

RECURSIVE TrimStart(_)
TrimStart(str) ==
    IF str # <<>> /\ IsWhitespace(Head(str)) THEN TrimStart(Tail(str)) ELSE str

RECURSIVE TrimEnd(_)
TrimEnd(str) ==
    IF str # <<>> /\ IsWhitespace(str[Len(str)])
    THEN TrimEnd(SubSeq(str, 1, Len(str) - 1))
    ELSE str

\* str::trim
Trim(str) == TrimEnd(TrimStart(str))

\* str::strip_prefix: the rest after the prefix, or None
StripPrefix(str, prefix) ==
    IF Len(str) >= Len(prefix) /\ SubSeq(str, 1, Len(prefix)) = prefix
    THEN [kind |-> "Some", val |-> SubSeq(str, Len(prefix) + 1, Len(str))]
    ELSE [kind |-> "None", val |-> <<>>]

WinePrefix == <<"w", "i", "n", "e", "-">>

NoTagResult == [kind |-> "None", val |-> <<>>]

\* the locals of a call of normalize_wine_tag(input) about to start
NewTag(input) ==
    [pc |-> "l2", input |-> input, value |-> <<>>, chars |-> <<>>,
     normalized |-> <<>>, result |-> [kind |-> "Pending", val |-> <<>>]]

\* lines 2-5: let mut value = input.trim(); if value.is_empty() { return None; }
tag_trim(t) ==
    LET v == Trim(t.input)
    IN  IF v = <<>> THEN [t EXCEPT !.pc = "done", !.value = v,
                                   !.result = NoTagResult]
        ELSE [t EXCEPT !.pc = "l7", !.value = v]

\* lines 7-9: if let Some(stripped) = value.strip_prefix("wine-") { value = stripped; }
tag_strip_wine(t) ==
    LET r == StripPrefix(t.value, WinePrefix)
    IN  [t EXCEPT !.pc = "l10",
                  !.value = IF r.kind = "Some" THEN r.val ELSE @]

\* lines 10-14: if let Some(stripped) = value.strip_prefix('v') { value = stripped; }
\*              let mut normalized = String::new();  and the loop's value.chars()
tag_strip_v(t) ==
    LET r == StripPrefix(t.value, <<"v">>)
        v == IF r.kind = "Some" THEN r.val ELSE t.value
    IN  [t EXCEPT !.pc = "l15", !.value = v, !.chars = v, !.normalized = <<>>]

\* lines 15-21: one turn of `for ch in value.chars()`
tag_scan(t) ==
    IF t.chars = <<>> THEN [t EXCEPT !.pc = "l23"]
    ELSE LET ch == Head(t.chars)
         IN  IF IsAsciiDigit(ch) \/ ch = "."
             THEN [t EXCEPT !.normalized = Append(@, ch), !.chars = Tail(@)]
             ELSE [t EXCEPT !.pc = "l23"]

\* lines 23-27: if normalized.is_empty() { None } else { Some(normalized) }
tag_return(t) ==
    IF t.normalized = <<>> THEN [t EXCEPT !.pc = "done", !.result = NoTagResult]
    ELSE [t EXCEPT !.pc = "done",
                   !.result = [kind |-> "Some", val |-> t.normalized]]

TagFrame == <<usize_bits, overflow_checks, mem, call, fs, cells, outs, ffi>>

TagTrim ==
    /\ tag.pc = "l2"
    /\ tag' = tag_trim(tag)
    /\ UNCHANGED TagFrame

TagStripWine ==
    /\ tag.pc = "l7"
    /\ tag' = tag_strip_wine(tag)
    /\ UNCHANGED TagFrame

TagStripV ==
    /\ tag.pc = "l10"
    /\ tag' = tag_strip_v(tag)
    /\ UNCHANGED TagFrame

TagScan ==
    /\ tag.pc = "l15"
    /\ tag' = tag_scan(tag)
    /\ UNCHANGED TagFrame

TagReturn ==
    /\ tag.pc = "l23"
    /\ tag' = tag_return(tag)
    /\ UNCHANGED TagFrame

NextTag == TagTrim \/ TagStripWine \/ TagStripV \/ TagScan \/ TagReturn

RECURSIVE SeqsUpTo(_, _)
SeqsUpTo(S, n) ==
    IF n = 0 THEN {<<>>}
    ELSE LET shorter == SeqsUpTo(S, n - 1)
         IN  shorter \cup {Append(x, c) : x \in shorter, c \in S}

\* the tags of the crate's tests
TestTags ==
    {<<"w", "i", "n", "e", "-", "1", "1", ".", "2">>,
     <<"v", "9", ".", "2", "1">>,
     <<"w", "i", "n", "e", "-", "8", ".", "0", ".", "1", "-", "r", "c", "1">>,
     <<"r", "e", "l", "e", "a", "s", "e">>}

\* whitespace, then a prefix, then a body of up to MaxBody characters, then
\* whitespace
TagInputs ==
    TestTags \cup
    {lead \o prefix \o body \o trail :
        lead \in {<<>>, <<" ">>},
        prefix \in {<<>>, WinePrefix, <<"v">>, WinePrefix \o <<"v">>,
                    <<"v">> \o WinePrefix, <<"w", "i", "n", "e">>},
        body \in SeqsUpTo({"8", ".", "-", "r", "v"}, MaxBody),
        trail \in {<<>>, <<"\n">>}}

InitTag ==
    /\ usize_bits = 64 /\ overflow_checks = FALSE
    /\ mem = <<>> /\ call = <<>>
    /\ fs = NoFs /\ cells = NoCells /\ outs = NoOuts /\ ffi = NoFfi
    /\ \E input \in TagInputs : tag = NewTag(input)

SpecTag == InitTag /\ [][NextTag]_vars

(***************************************************************************)
(* vodka-pe: inspect_pe_path, and vodka-core: the extern "C" entry points. *)
(* A `*const c_char` is null or points to a NUL-terminated byte string; a  *)
(* path is a sequence of code points; the file system maps the paths that  *)
(* can be read to their content.  An out-parameter is null or the address  *)
(* of a caller-owned cell.                                                 *)
(***************************************************************************)
NullPath == [null |-> TRUE, bytes |-> <<>>]

CPath(bytes) == [null |-> FALSE, bytes |-> bytes]

NullPtr == "null"

\* String::from_utf8_lossy on the strings the model passes (single bytes):
\* an ASCII byte is its code point, any other byte is invalid UTF-8 and
\* becomes U+FFFD
to_string_lossy(bytes) ==
    [i \in 1..Len(bytes) |-> IF bytes[i] < 128 THEN bytes[i] ELSE 65533]

\* lines 6-13 of vodka-core
c_path_to_path(path) ==
    IF path.null THEN [kind |-> "None", val |-> <<>>]
    ELSE [kind |-> "Some", val |-> to_string_lossy(path.bytes)]

\* fs::read(path): Ok(bytes) or Err
fs_read(path) ==
    IF path \in DOMAIN fs THEN [kind |-> "Ok", val |-> fs[path]]
    ELSE [kind |-> "Err", val |-> <<>>]

\* lines 44-47 of vodka-pe
inspect_pe_path(path) ==
    LET bytes == fs_read(path)
    IN  IF bytes.kind = "Err" THEN NoFields
        ELSE inspect_pe_bytes(bytes.val)

\* lines 15-18 of vodka-core
inspect_path(path) ==
    LET p == c_path_to_path(path)
    IN  IF p.kind = "None" THEN NoFields
        ELSE inspect_pe_path(p.val)

\* a closure called with no unwind guard: its panic keeps unwinding
call_unguarded(r) ==
    IF r.kind = "Panic" THEN [kind |-> "Err", unwinding |-> TRUE, val |-> NoFields]
    ELSE [kind |-> "Ok", unwinding |-> FALSE, val |-> r]

\* std::panic::catch_unwind(|| ...): Ok(value), or Err when the closure panicked
catch_unwind(r) ==
    IF r.kind = "Panic" THEN [kind |-> "Err", unwinding |-> FALSE, val |-> NoFields]
    ELSE [kind |-> "Ok", unwinding |-> FALSE, val |-> r]

\* result.ok().flatten()
ok_flatten(result) == IF result.kind = "Ok" THEN result.val ELSE NoFields

\* `if !ptr.is_null() { *ptr = value; }` on the memory and the write log
StoreIfNonNull(st, ptr, value) ==
    IF ptr = NullPtr THEN st
    ELSE [cells |-> [st.cells EXCEPT ![ptr] = value],
          writes |-> Append(st.writes, <<ptr, value>>)]

\* what an entry point did: the value returned, the memory it leaves, the
\* writes it made in order, and whether a panic left through it
Returns(ret, st) ==
    [ret |-> ret, cells |-> st.cells, writes |-> st.writes, unwound |-> FALSE]

\* lines 32-44: the three guarded stores and `true`
store_fields(got, machine, subsystem, entry_point_rva, memory) ==
    Returns(TRUE,
        StoreIfNonNull(
            StoreIfNonNull(
                StoreIfNonNull([cells |-> memory, writes |-> <<>>],
                               machine, got.machine),
                subsystem, got.subsystem),
            entry_point_rva, got.entry_point_rva))

\* lines 28-44 with the out-parameters cleared before `return false`
let_else_clearing(got, machine, subsystem, entry_point_rva, memory) ==
    IF got.kind # "Some"
    THEN [store_fields(NoFields, machine, subsystem, entry_point_rva, memory)
             EXCEPT !.ret = FALSE]
    ELSE store_fields(got, machine, subsystem, entry_point_rva, memory)

\* lines 28-44: let Some((..)) = result.ok().flatten() else { return false; };
\*              then the stores
let_else(got, machine, subsystem, entry_point_rva, memory) ==
    IF got.kind # "Some"
    THEN Returns(FALSE, [cells |-> memory, writes |-> <<>>])
    ELSE store_fields(got, machine, subsystem, entry_point_rva, memory)

\* the rest of vodka_pe_inspect once the closure has ended; a panic still
\* unwinding leaves through the extern "C" frame
after_closure(result, machine, subsystem, entry_point_rva, memory) ==
    IF result.unwinding
    THEN [ret |-> FALSE, cells |-> memory, writes |-> <<>>, unwound |-> TRUE]
    ELSE let_else(ok_flatten(result), machine, subsystem, entry_point_rva, memory)

\* lines 20-45 of vodka-core
vodka_pe_inspect(path, machine, subsystem, entry_point_rva, memory) ==
    after_closure(catch_unwind(inspect_path(path)),
                  machine, subsystem, entry_point_rva, memory)

\* lines 47-50 that report whether the file could be read
vodka_pe_validate_file_readable(path, memory) ==
    LET p == c_path_to_path(path)
    IN  [ret |-> p.kind = "Some" /\ fs_read(p.val).kind = "Ok",
         cells |-> memory, writes |-> <<>>, unwound |-> FALSE]

\* lines 47-50
vodka_pe_validate_file(path, memory) ==
    vodka_pe_inspect(path, NullPtr, NullPtr, NullPtr, memory)

\* lines 52-60
vodka_pe_extract_header(path, machine, subsystem, entry_point_rva, memory) ==
    vodka_pe_inspect(path, machine, subsystem, entry_point_rva, memory)

\* lines 62-65
whisky_rust_pe_validate_file(path, memory) ==
    vodka_pe_validate_file(path, memory)

\* lines 67-75
whisky_rust_pe_extract_header(path, machine, subsystem, entry_point_rva, memory) ==
    vodka_pe_extract_header(path, machine, subsystem, entry_point_rva, memory)

\* the caller's side: the path strings it passes, the cells it owns
PathArgs == {NullPath, CPath(<<97>>), CPath(<<109>>), CPath(<<255>>)}

\* the out-pointer triples a caller passes: all null, all set, some set, and
\* machine and subsystem aliased to one cell
OutArgs ==
    {<<NullPtr, NullPtr, NullPtr>>, <<"h1", "h2", "w1">>,
     <<"h1", NullPtr, NullPtr>>, <<NullPtr, "h2", "w1">>,
     <<NullPtr, NullPtr, "w1">>, <<"h1", "h1", "w1">>}

\* the cells before any call wrote to them
InitCells == [c \in {"h1", "h2", "w1"} |->
                 IF c = "w1" THEN <<51966, 61453>> ELSE 57005]

\* file contents: the interleaved calls' buffers, a bad signature, a file
\* shorter than the DOS header
FfiFiles ==
    LET base == [Scenario EXCEPT !.len = 158, !.pe_offset = <<DosHeaderLen, 0>>,
                                 !.at = DosHeaderLen]
    IN  ParImages \cup
        {BuildImage([base EXCEPT !.sig = <<88, 69, 0, 0>>]),
         BuildImage([base EXCEPT !.len = 10])}

\* the scenario file with other field values and the PE32 magic
OtherFile ==
    BuildImage([Scenario EXCEPT !.len = 222, !.machine = 332, !.subsystem = 3,
                                !.magic = MagicPe32, !.entry = <<4096, 0>>])

FfiFrame == <<usize_bits, overflow_checks, mem, call, fs, outs, tag>>

\* the record of a completed call: its arguments, the memory before and
\* after it, and what it did
CallRecord(fn, path, machine, subsystem, entry_point_rva, r) ==
    [fn |-> fn, path |-> path, machine |-> machine, subsystem |-> subsystem,
     entry_point_rva |-> entry_point_rva, before |-> cells, after |-> r.cells,
     ret |-> r.ret, writes |-> r.writes, unwound |-> r.unwound]

CallInspect ==
    \E path \in PathArgs :
        /\ ffi' = CallRecord("vodka_pe_inspect", path, outs[1], outs[2], outs[3],
                      vodka_pe_inspect(path, outs[1], outs[2], outs[3], cells))
        /\ cells' = ffi'.after
        /\ UNCHANGED FfiFrame

CallValidateFile ==
    \E path \in PathArgs :
        /\ ffi' = CallRecord("vodka_pe_validate_file", path,
                      NullPtr, NullPtr, NullPtr,
                      vodka_pe_validate_file(path, cells))
        /\ cells' = ffi'.after
        /\ UNCHANGED FfiFrame

CallExtractHeader ==
    \E path \in PathArgs :
        /\ ffi' = CallRecord("vodka_pe_extract_header", path,
                      outs[1], outs[2], outs[3],
                      vodka_pe_extract_header(path, outs[1], outs[2], outs[3], cells))
        /\ cells' = ffi'.after
        /\ UNCHANGED FfiFrame

CallWhiskyValidateFile ==
    \E path \in PathArgs :
        /\ ffi' = CallRecord("whisky_rust_pe_validate_file", path,
                      NullPtr, NullPtr, NullPtr,
                      whisky_rust_pe_validate_file(path, cells))
        /\ cells' = ffi'.after
        /\ UNCHANGED FfiFrame

CallWhiskyExtractHeader ==
    \E path \in PathArgs :
        /\ ffi' = CallRecord("whisky_rust_pe_extract_header", path,
                      outs[1], outs[2], outs[3],
                      whisky_rust_pe_extract_header(path, outs[1], outs[2], outs[3],
                                                    cells))
        /\ cells' = ffi'.after
        /\ UNCHANGED FfiFrame

NextFfi ==
    \/ CallInspect
    \/ CallValidateFile
    \/ CallExtractHeader
    \/ CallWhiskyValidateFile
    \/ CallWhiskyExtractHeader

\* a file "a" with any of the contents, a file named U+FFFD, and no file
\* "m"; the caller passes the same out-pointers (null, distinct or
\* aliased) on every call that takes them
InitFfi ==
    /\ InitBuild
    /\ mem = <<>> /\ call = <<>> /\ tag = NoTag
    /\ \E f \in FfiFiles :
          fs = [n \in {<<97>>, <<65533>>} |->
                   IF n = <<97>> THEN f ELSE OtherFile]
    /\ cells = InitCells
    /\ outs \in OutArgs
    /\ ffi = NoFfi

SpecFfi == InitFfi /\ [][NextFfi]_vars

(***************************************************************************)
(* What the claims say about a buffer, read off the bytes directly.        *)
(***************************************************************************)
At(b, i) == IF i \in DOMAIN b THEN b[i] ELSE -1

Le16(b, i) == At(b, i) + 256 * At(b, i + 1)

Le32(b, i) == <<Le16(b, i), Le16(b, i + 2)>>

\* the PE offset stored at 0x3C, as <<low half, high half>>
StoredPeOffset(b) == Le32(b, 60)

\* the window [pe_offset + from, pe_offset + to) lies inside the buffer
WindowFits(b, to) ==
    /\ StoredPeOffset(b)[2] = 0
    /\ StoredPeOffset(b)[1] + to <= BufLen(b)

HasSignature(b) ==
    /\ WindowFits(b, 4)
    /\ \A k \in 0..3 : At(b, StoredPeOffset(b)[1] + k) = PeSignature[k + 1]

OptionalSizeOf(b) == Le16(b, StoredPeOffset(b)[1] + 20)

MagicOf(b) == Le16(b, StoredPeOffset(b)[1] + 24)

PassesAllChecks(b) ==
    /\ BufLen(b) >= 64
    /\ HasSignature(b)
    /\ WindowFits(b, 94)
    /\ OptionalSizeOf(b) >= 70
    /\ MagicOf(b) \in {267, 523}

Returned(p) == call[p].pc = "done"

Recognized(p) == Returned(p) /\ call[p].result.kind = "Some"

Unrecognized(p) == Returned(p) /\ call[p].result = NoFields

Input(p) == mem[call[p].buf]

\* C1: inspect_pe_bytes never panics and every byte it dereferences lies at
\* an index strictly below the buffer length, for every buffer and every
\* stored PE offset.
C1_InBoundsNoPanic ==
    \A p \in Calls :
        /\ call[p].pc # "panicked"
        /\ \A i \in call[p].accessed : 0 <= i /\ i < BufLen(Input(p))

\* C2: no offset sum of inspect_pe_bytes wraps modulo the usize width, and a
\* sum that would exceed the width gives Unrecognized, not a panic.
C2_NoWrapNoPanic ==
    \A p \in Calls :
        /\ ~call[p].wrapped
        /\ call[p].pc # "panicked"

\* C3: a buffer that passes all checks is Recognized with machine = LE u16 at
\* pe_offset+4, entry_point_rva = LE u32 at pe_offset+24+0x10 and subsystem =
\* LE u16 at pe_offset+24+0x44, for both magics; the 512-byte scenario
\* buffer yields (0x8664, 2, 0x12345678).
C3_FieldsDecoded ==
    \A p \in Calls :
        /\ (Finished(call[p]) /\ PassesAllChecks(Input(p))) =>
              LET o == StoredPeOffset(Input(p))[1]
              IN  /\ Returned(p)
                  /\ call[p].result =
                        [kind |-> "Some",
                         machine |-> Le16(Input(p), o + 4),
                         subsystem |-> Le16(Input(p), o + 24 + 68),
                         entry_point_rva |-> Le32(Input(p), o + 24 + 16)]
        /\ (Finished(call[p]) /\ Input(p) = ScenarioImage) =>
              call[p].result = [kind |-> "Some", machine |-> 34404,
                                subsystem |-> 2,
                                entry_point_rva |-> <<22136, 4660>>]

C3_Witness ==
    \E p \in Calls :
        /\ Recognized(p)
        /\ Input(p) = ScenarioImage

\* C4: Recognized is returned only after every marker was validated: length
\* >= 0x40, the PE signature at pe_offset, optional-header size >= 0x46 and
\* magic 0x10B or 0x20B; so a buffer shorter than 0x40, or with a smaller
\* size field or another magic, is Unrecognized.
C4_RecognizedOnlyIfValidated ==
    \A p \in Calls :
        /\ Recognized(p) =>
              /\ BufLen(Input(p)) >= 64
              /\ HasSignature(Input(p))
              /\ WindowFits(Input(p), 26)
              /\ OptionalSizeOf(Input(p)) >= 70
              /\ MagicOf(Input(p)) \in {267, 523}
        /\ (Finished(call[p]) /\ BufLen(Input(p)) < 64) => Unrecognized(p)
        /\ (/\ Finished(call[p])
            /\ BufLen(Input(p)) >= 64
            /\ \/ WindowFits(Input(p), 22) /\ OptionalSizeOf(Input(p)) < 70
               \/ WindowFits(Input(p), 26) /\ MagicOf(Input(p)) \notin {267, 523})
           => Unrecognized(p)

C4_Witness ==
    \E p \in Calls :
        /\ Unrecognized(p)
        /\ HasSignature(Input(p))
        /\ WindowFits(Input(p), 94)
        /\ OptionalSizeOf(Input(p)) = 69
        /\ MagicOf(Input(p)) = 523

\* C5: a buffer whose 4 bytes at the stored PE offset are not 'P','E',0,0, or
\* whose 4-byte window there does not fit in the buffer, is Unrecognized.
C5_BadSignatureUnrecognized ==
    \A p \in Calls :
        (/\ Finished(call[p])
         /\ BufLen(Input(p)) >= 64
         /\ ~HasSignature(Input(p)))
        => Unrecognized(p)

\* how a call ended: returned or unwound, and the value returned
Outcome(p) == <<call[p].pc, call[p].result>>

\* the outcome of inspect_pe_bytes run alone on the bytes b
AloneOutcome(b) ==
    LET l == RunParse(NewCall(1), b) IN <<l.pc, l.result>>

\* C9: the parse is a pure function of the bytes: calls on identical bytes
\* end with identical outcomes, interleaved or not, equal to the outcome of
\* the parse run alone; a step touches only its own call's locals and the
\* buffers are never modified.
C9_PureFunctionOfBytes ==
    /\ [](\A p, q \in Calls :
            (Finished(call[p]) /\ Finished(call[q]) /\ Input(p) = Input(q))
            => Outcome(p) = Outcome(q))
    /\ [](\A p \in Calls :
            Finished(call[p]) => Outcome(p) = AloneOutcome(Input(p)))
    /\ [][/\ mem' = mem
          /\ \E p \in Calls : \A q \in Calls \ {p} : call'[q] = call[q]]_vars

C9_Witness ==
    \E p, q \in Calls :
        /\ p # q
        /\ call[p].buf # call[q].buf
        /\ Input(p) = Input(q)
        /\ Recognized(p)
        /\ Recognized(q)

HasDigit(str) == \E i \in 1..Len(str) : IsAsciiDigit(str[i])

\* C10: normalize_wine_tag rejects non-numeric tags: an input without an ASCII
\* digit gives None, and every Some(s) it returns contains an ASCII digit.
C10_RejectsNonNumeric ==
    tag.pc = "done" =>
        /\ ~HasDigit(tag.input) => tag.result = NoTagResult
        /\ tag.result.kind = "Some" => HasDigit(tag.result.val)

\* the stores a successful call makes, in order, for the pointers given
ExpectedWrites(got, machine, subsystem, entry_point_rva) ==
    (IF machine = NullPtr THEN <<>> ELSE << <<machine, got.machine>> >>)
    \o (IF subsystem = NullPtr THEN <<>> ELSE << <<subsystem, got.subsystem>> >>)
    \o (IF entry_point_rva = NullPtr THEN <<>>
        ELSE << <<entry_point_rva, got.entry_point_rva>> >>)

RECURSIVE ApplyWrites(_, _)
ApplyWrites(memory, writes) ==
    IF writes = <<>> THEN memory
    ELSE ApplyWrites([memory EXCEPT ![Head(writes)[1]] = Head(writes)[2]],
                     Tail(writes))

\* C6: vodka_pe_inspect returns true exactly when loading and parsing the
\* path gives Recognized; on true it stores each decoded value through its
\* pointer iff the pointer is non-null; on false it stores nothing and the
\* cells keep their contents.
C6_OutParameters ==
    ffi.fn = "vodka_pe_inspect" =>
        LET got == inspect_path(ffi.path)
        IN  /\ ffi.ret = (got.kind = "Some")
            /\ ffi.ret =>
                  /\ ffi.writes = ExpectedWrites(got, ffi.machine, ffi.subsystem,
                                                 ffi.entry_point_rva)
                  /\ cells = ApplyWrites(ffi.before, ffi.writes)
            /\ ~ffi.ret =>
                  /\ ffi.writes = <<>>
                  /\ cells = ffi.before

C6_Witness ==
    /\ ffi.fn = "vodka_pe_inspect"
    /\ ffi.ret
    /\ ffi.machine = NullPtr
    /\ ffi.subsystem # NullPtr
    /\ Len(ffi.writes) = 2
    /\ cells # ffi.before

\* C7: a null path, an unreadable file, an unrecognized header or a panic
\* while loading and parsing all end with the entry point returning false,
\* and no panic leaves through the extern "C" frame.
C7_FailuresReturnFalse ==
    ffi.fn # "none" =>
        /\ ~ffi.unwound
        /\ (\/ ffi.path.null
            \/ fs_read(to_string_lossy(ffi.path.bytes)).kind = "Err"
            \/ inspect_path(ffi.path).kind \in {"None", "Panic"})
           => ffi.ret = FALSE

C7_Witness ==
    /\ ffi.fn = "vodka_pe_inspect"
    /\ ~ffi.path.null
    /\ inspect_path(ffi.path).kind = "Panic"
    /\ ffi.ret = FALSE
    /\ ~ffi.unwound

\* the call recorded in ffi did exactly what r says
SameAs(r) ==
    /\ ffi.ret = r.ret
    /\ ffi.writes = r.writes
    /\ ffi.unwound = r.unwound
    /\ cells = r.cells

\* C8: vodka_pe_validate_file returns what vodka_pe_inspect returns for the
\* path, whatever out-pointers that is given, and stores nothing; each alias
\* returns and stores exactly what the operation it forwards to does.
C8_Forwarding ==
    /\ ffi.fn = "vodka_pe_validate_file" =>
          /\ \A o \in OutArgs :
                ffi.ret = vodka_pe_inspect(ffi.path, o[1], o[2], o[3], ffi.before).ret
          /\ ffi.writes = <<>>
          /\ cells = ffi.before
    /\ ffi.fn = "vodka_pe_extract_header" =>
          SameAs(vodka_pe_inspect(ffi.path, ffi.machine, ffi.subsystem,
                                  ffi.entry_point_rva, ffi.before))
    /\ ffi.fn = "whisky_rust_pe_validate_file" =>
          SameAs(vodka_pe_validate_file(ffi.path, ffi.before))
    /\ ffi.fn = "whisky_rust_pe_extract_header" =>
          SameAs(vodka_pe_extract_header(ffi.path, ffi.machine, ffi.subsystem,
                                         ffi.entry_point_rva, ffi.before))

C8_Witness ==
    /\ ffi.fn = "vodka_pe_validate_file"
    /\ ffi.ret
    /\ outs = <<"h1", "h2", "w1">>
    /\ cells = InitCells

====
